---- MODULE Spec2Model ----
(***************************************************************************)
(* Model of the mbadocx relationship store (relationships/relationships.go) *)
(* and of the package writer (writer.Writer).                              *)
(*                                                                         *)
(* Strings that are paths or URIs are kept as the sequence of their        *)
(* "/"-separated segments (strings.Split(s, "/")): "media/a.png" is        *)
(* <<"media", "a.png">>, "http://x" is <<"http:", "", "x">> and the empty  *)
(* string is <<"">>.  A *Relationship is an index into `heap`; 0 is nil.   *)
(***************************************************************************)
EXTENDS Integers, Sequences, FiniteSets, TLC

VARIABLES
    heap,        \* every Relationship object allocated so far, in allocation order
    rels,        \* the Relationships collection (one struct value)
    last,        \* the last call made on the collection and what it returned
    clearedAt,   \* history: Len(heap) when Clear was last called (0: never)
    other,       \* a second collection: the argument of Merge, the source or result of Clone
    phase        \* where the calling program is: "store", "build", "merged", "cloned", "done"

relVars == <<heap, rels, last, clearedAt, other, phase>>

VARIABLES
    wmode,       \* which Write runs: "concurrent", "sequential" (options.ConcurrentComponents) or "legacy"
    failing,     \* the components whose Byte() fails on this document snapshot
    media,       \* document.Media(): the file names of the media list, in order
    wpc,         \* where Writer.Write is
    idx,         \* the loop index of Write's current loop
    tasks,       \* per component: the goroutine writeConcurrently started for it
    chan,        \* resultChan: the results sent and not yet received
    zip,         \* w.zipWriter: the entries created, whether Close has run
    busy,        \* the threads that are inside a call on w.zipWriter
    overlapped,  \* the threads of busy whose call ran while another thread was in one
    perr,        \* per component: what writeToZip returned for it
    merr,        \* per media file of the list: what writing it returned
    wret         \* what Write returned

wVars == <<wmode, failing, media, wpc, idx, tasks, chan, zip, busy, overlapped, perr, merr, wret>>

VARIABLES
    pool,        \* bufferPool: the buffers that were put back and can be handed out
    buffers,     \* the bytes.Buffer objects made so far: their storage and whether they are reset
    borrowers    \* per thread calling NumberingDefinitions.Byte(): its inputs, position, buffer and result

poolVars == <<pool, buffers, borrowers>>

VARIABLES
    docClosed,   \* Document.closed
    mu,          \* Document.mu: the caller that holds it (0: nobody)
    callers,     \* per thread calling Save, Write or Close on the document: the call and where it is
    sinkWrites,  \* how many times a Writer.Write was run on a caller's sink or file
    files,       \* how many files os.Create has made
    closeDone    \* whether some call of Close has returned

docVars == <<docClosed, mu, callers, sinkWrites, files, closeDone>>

vars == <<relVars, wVars, poolVars, docVars>>

----------------------------------------------------------------------------
(* Bounds of the model *)

\* at most this many Relationship objects are allocated in one behaviour
MaxHeap == 2

\* Write is run on the first NumParts components of its list
NumParts == 2

\* the media list of the snapshot holds at most this many files
MaxMedia == 2

\* a collection is given at most this many relationships before Merge or Clone
MaxBuilt == 2

\* at most this many relationships are added to the default collection
MaxAdded == 2

\* relationships made by the image calls of the image-only behaviours
MaxImages == 3

\* threads that call Byte() of a part at the same time
NumBorrowers == 2

\* threads that call Save, Write and Close on one document
NumCallers == 2

\* calls each of them makes
CallsEach == 2

----------------------------------------------------------------------------
(* Constants of relationships.go *)

Nil == 0

RelPrefix == <<"http:", "", "schemas.openxmlformats.org", "officeDocument", "2006", "relationships">>

TypeHeader == RelPrefix \o <<"header">>

TypeFooter == RelPrefix \o <<"footer">>

TypeImage == RelPrefix \o <<"image">>

TypeHyperlink == RelPrefix \o <<"hyperlink">>

TypeChart == RelPrefix \o <<"chart">>

TypeCustomXML == RelPrefix \o <<"customXml">>

TypeDocument == RelPrefix \o <<"officeDocument">>

TypeStyles == RelPrefix \o <<"styles">>

TypeSettings == RelPrefix \o <<"settings">>

TypeWebSettings == RelPrefix \o <<"webSettings">>

TypeFontTable == RelPrefix \o <<"fontTable">>

TypeTheme == RelPrefix \o <<"theme">>

TypeCoreProperties ==
    <<"http:", "", "schemas.openxmlformats.org", "package", "2006", "relationships",
      "metadata", "core-properties">>

TypeExtProperties == RelPrefix \o <<"extended-properties">>

TargetModeInternal == "Internal"

TargetModeExternal == "External"

----------------------------------------------------------------------------
(* Go maps: a missing key reads as the zero value *)

MapGet(m, k, zero) == IF k \in DOMAIN m THEN m[k] ELSE zero

MapPut(m, k, v) == [x \in DOMAIN m \cup {k} |-> IF x = k THEN v ELSE m[x]]

MapDelete(m, k) == [x \in DOMAIN m \ {k} |-> m[x]]

EmptyMap == [x \in {} |-> Nil]

Range(s) == {s[i] : i \in DOMAIN s}

----------------------------------------------------------------------------
(* path.Join / path.Clean on segment sequences *)

RECURSIVE CleanSegs(_, _, _)
CleanSegs(segs, out, rooted) ==
    IF segs = <<>> THEN out
    ELSE LET s == Head(segs)
             rest == Tail(segs)
         IN  IF s = "" \/ s = "." THEN CleanSegs(rest, out, rooted)
             ELSE IF s = ".."
                  THEN IF out # <<>> /\ out[Len(out)] # ".."
                       THEN CleanSegs(rest, SubSeq(out, 1, Len(out) - 1), rooted)
                       ELSE IF rooted THEN CleanSegs(rest, out, rooted)
                            ELSE CleanSegs(rest, Append(out, ".."), rooted)
                  ELSE CleanSegs(rest, Append(out, s), rooted)

PathClean(p) ==
    LET rooted == Len(p) > 1 /\ p[1] = ""
        out == CleanSegs(p, <<>>, rooted)
    IN  IF rooted THEN (IF out = <<>> THEN <<"", "">> ELSE <<"">> \o out)
        ELSE IF out = <<>> THEN <<".">> ELSE out

\* path.Join(a, b): empty elements are ignored, the rest joined by "/" and cleaned
PathJoin(a, b) ==
    IF a = <<"">> /\ b = <<"">> THEN <<"">>
    ELSE IF a = <<"">> THEN PathClean(b)
    ELSE IF b = <<"">> THEN PathClean(a)
    ELSE PathClean(a \o b)

\* a file name is kept as its base and its extension; the string is base ++ ext
FileStr(f) == <<f.base \o f.ext>>

\* fmt.Sprintf("media/%s", filename)
MediaTarget(f) == <<"media">> \o FileStr(f)

\* fmt.Sprintf("media/%s_%s%s", base, uuid8, ext)
UniqueMediaTarget(f, token) == <<"media", f.base \o "_" \o token \o f.ext>>

\* the id format with the number left out
FormatID_NoNumber(n) == <<"rId", 1>>

\* fmt.Sprintf("rId%d", n)
FormatID(n) == <<"rId", n>>

\* the N of rIdN
IDNumber(id) == id[2]

----------------------------------------------------------------------------
(* The collection *)

New ==
    [ items        |-> EmptyMap,
      counter      |-> 0,
      nextID       |-> 1,
      byType       |-> EmptyMap,
      byTarget     |-> EmptyMap,
      external     |-> EmptyMap,
      packageRels  |-> <<>>,
      documentRels |-> <<>> ]

\* generateID with the increment forgotten
generateID_NoIncrement(c) == [id |-> FormatID(c.nextID), c |-> c]

generateID(c) == [id |-> FormatID(c.nextID), c |-> [c EXCEPT !.nextID = @ + 1]]

TargetKeyOf(relType, target, targetMode) ==
    IF targetMode = TargetModeExternal THEN target ELSE PathJoin(relType, target)

\* The result of an operation: the collection, the heap and the value returned
Result(c, h, ret) == [c |-> c, h |-> h, ret |-> ret]

AddRelationship(c, h, relType, target, targetMode) ==
    LET g == generateID(c)
        rel == [ ID         |-> g.id,
                 Type       |-> relType,
                 Target     |-> target,
                 TargetMode |-> targetMode,
                 TargetKey  |-> TargetKeyOf(relType, target, targetMode) ]
        p == Len(h) + 1
        c1 == [g.c EXCEPT
                 !.items    = MapPut(@, rel.ID, p),
                 !.byType   = MapPut(@, relType, Append(MapGet(@, relType, <<>>), p)),
                 !.byTarget = MapPut(@, rel.TargetKey, p)]
        c2 == IF targetMode = TargetModeExternal
              THEN [c1 EXCEPT !.external = MapPut(@, target, p)]
              ELSE c1
    IN  Result(c2, Append(h, rel), p)

AddPackageRelationship(c, h, relType, target, targetMode) ==
    LET r == AddRelationship(c, h, relType, target, targetMode)
    IN  Result([r.c EXCEPT !.packageRels = Append(@, r.ret)], r.h, r.ret)

AddDocumentRelationship(c, h, relType, target, targetMode) ==
    LET r == AddRelationship(c, h, relType, target, targetMode)
    IN  Result([r.c EXCEPT !.documentRels = Append(@, r.ret)], r.h, r.ret)

\* GetByTarget with the scan over items left out
GetByTarget_DirectOnly(c, h, target) == {MapGet(c.byTarget, target, Nil)}

\* GetByTarget: the set of values a call can return (the scan follows Go's
\* unspecified map iteration order, so any item with that Target can be the one)
GetByTarget(c, h, target) ==
    IF MapGet(c.byTarget, target, Nil) # Nil
    THEN {c.byTarget[target]}
    ELSE LET hits == {p \in Range(c.items) : h[p].Target = target}
         IN  IF hits = {} THEN {Nil} ELSE hits

GetExternal(c, url) == MapGet(c.external, url, Nil)

\* AddImage, AddUniqueImage: `existing` is the value GetByTarget returned
AddImage(c, h, f, existing) ==
    IF existing # Nil THEN Result(c, h, existing)
    ELSE AddDocumentRelationship(c, h, TypeImage, MediaTarget(f), TargetModeInternal)

AddUniqueImage(c, h, f, existing, token) ==
    LET target == IF existing # Nil THEN UniqueMediaTarget(f, token) ELSE MediaTarget(f)
    IN  AddDocumentRelationship(c, h, TypeImage, target, TargetModeInternal)

AddHyperlink(c, h, url) ==
    IF GetExternal(c, url) # Nil THEN Result(c, h, GetExternal(c, url))
    ELSE AddDocumentRelationship(c, h, TypeHyperlink, url, TargetModeExternal)

\* GetOrCreateHyperlink that always creates
GetOrCreateHyperlink_AlwaysCreate(c, h, url) ==
    AddDocumentRelationship(c, h, TypeHyperlink, url, TargetModeExternal)

GetOrCreateHyperlink(c, h, url) ==
    IF GetExternal(c, url) # Nil THEN Result(c, h, GetExternal(c, url))
    ELSE AddHyperlink(c, h, url)

AddHeader(c, h, headerFile) ==
    AddDocumentRelationship(c, h, TypeHeader, headerFile, TargetModeInternal)

AddFooter(c, h, footerFile) ==
    AddDocumentRelationship(c, h, TypeFooter, footerFile, TargetModeInternal)

AddChart(c, h, chartFile) ==
    AddDocumentRelationship(c, h, TypeChart, chartFile, TargetModeInternal)

AddCustomXML(c, h, xmlFile) ==
    AddDocumentRelationship(c, h, TypeCustomXML, xmlFile, TargetModeInternal)

\* the elements of a slice whose ID is not id, in order
removeFromSlice(slice, h, id) == SelectSeq(slice, LAMBDA p : h[p].ID # id)

Remove(c, h, id) ==
    IF id \notin DOMAIN c.items THEN Result(c, h, FALSE)
    ELSE LET rel == h[c.items[id]]
             c1 == [c EXCEPT !.items = MapDelete(@, id),
                             !.byTarget = MapDelete(@, rel.TargetKey)]
             c2 == IF rel.TargetMode = TargetModeExternal
                   THEN [c1 EXCEPT !.external = MapDelete(@, rel.Target)]
                   ELSE c1
             c3 == IF rel.Type \in DOMAIN c2.byType
                   THEN [c2 EXCEPT !.byType =
                            MapPut(@, rel.Type, removeFromSlice(@[rel.Type], h, id))]
                   ELSE c2
         IN  Result([c3 EXCEPT !.packageRels = removeFromSlice(@, h, id),
                               !.documentRels = removeFromSlice(@, h, id)], h, TRUE)

Clear(c) ==
    [c EXCEPT !.items = EmptyMap, !.byType = EmptyMap, !.byTarget = EmptyMap,
              !.external = EmptyMap, !.packageRels = <<>>, !.documentRels = <<>>,
              !.counter = 0, !.nextID = 1]

Count(c) == Cardinality(DOMAIN c.items)

\* the orders in which a `for ... range` over a map with key set S can visit it
Orders(S) == {s \in [1..Cardinality(S) -> S] : Range(s) = S}

\* findDuplicate(rel), rel given as the Relationship value
findDuplicate(c, h, rel) ==
    IF MapGet(c.byTarget, rel.TargetKey, Nil) # Nil THEN c.byTarget[rel.TargetKey]
    ELSE IF rel.TargetMode = TargetModeExternal THEN MapGet(c.external, rel.Target, Nil)
    ELSE Nil

\* isPackageRel, isDocumentRel: pointer equality with an element of the slice
isPackageRel(packageRels, p) == \E k \in DOMAIN packageRels : packageRels[k] = p

isDocumentRel(documentRels, p) == \E k \in DOMAIN documentRels : documentRels[k] = p

\* the loop of Merge over other.items, visited in `order`; idMap is its local map
RECURSIVE MergeFrom(_, _, _, _, _)
MergeFrom(c, h, o, order, idMap) ==
    IF order = <<>> THEN Result(c, h, idMap)
    ELSE LET oldID == Head(order)
             p == o.items[oldID]
             rel == h[p]
             existing == findDuplicate(c, h, rel)
         IN  IF existing # Nil
             THEN MergeFrom(c, h, o, Tail(order), MapPut(idMap, oldID, h[existing].ID))
             ELSE LET g == generateID(c)
                      newRel == [ ID         |-> g.id,
                                  Type       |-> rel.Type,
                                  Target     |-> rel.Target,
                                  TargetMode |-> rel.TargetMode,
                                  TargetKey  |-> rel.TargetKey ]
                      q == Len(h) + 1
                      c1 == [g.c EXCEPT
                               !.items    = MapPut(@, newRel.ID, q),
                               !.byType   = MapPut(@, newRel.Type,
                                                   Append(MapGet(@, newRel.Type, <<>>), q)),
                               !.byTarget = MapPut(@, newRel.TargetKey, q)]
                      c2 == IF newRel.TargetMode = TargetModeExternal
                            THEN [c1 EXCEPT !.external = MapPut(@, newRel.Target, q)]
                            ELSE c1
                      c3 == IF isPackageRel(o.packageRels, p)
                            THEN [c2 EXCEPT !.packageRels = Append(@, q)]
                            ELSE IF isDocumentRel(o.documentRels, p)
                                 THEN [c2 EXCEPT !.documentRels = Append(@, q)]
                                 ELSE c2
                  IN  MergeFrom(c3, Append(h, newRel), o, Tail(order),
                                MapPut(idMap, oldID, newRel.ID))

\* a Merge that starts from an emptied receiver, as Clone starts from New()
Merge_IntoCleared(c, h, o, order) == MergeFrom(Clear(c), h, o, order, EmptyMap)

\* c.Merge(o) with o not nil; the value "returned" is idMap, which the code drops
Merge(c, h, o, order) == MergeFrom(c, h, o, order, EmptyMap)

\* the first loop of Clone: one new Relationship per item, visited in `order`
RECURSIVE CloneItems(_, _, _, _)
CloneItems(c, h, order, clone) ==
    IF order = <<>> THEN Result(clone, h, Nil)
    ELSE LET rel == h[c.items[Head(order)]]
             clonedRel == [ ID         |-> rel.ID,
                            Type       |-> rel.Type,
                            Target     |-> rel.Target,
                            TargetMode |-> rel.TargetMode,
                            TargetKey  |-> rel.TargetKey ]
             q == Len(h) + 1
             k1 == [clone EXCEPT
                      !.items    = MapPut(@, clonedRel.ID, q),
                      !.byType   = MapPut(@, clonedRel.Type,
                                          Append(MapGet(@, clonedRel.Type, <<>>), q)),
                      !.byTarget = MapPut(@, clonedRel.TargetKey, q)]
             k2 == IF clonedRel.TargetMode = TargetModeExternal
                   THEN [k1 EXCEPT !.external = MapPut(@, clonedRel.Target, q)]
                   ELSE k1
         IN  CloneItems(c, Append(h, clonedRel), Tail(order), k2)

\* the second and third loop of Clone: for each element of the slice, in order,
\* the clone's item of the same ID when there is one
ClonePartition(slice, h, cloneItems) ==
    LET kept == SelectSeq(slice, LAMBDA p : MapGet(cloneItems, h[p].ID, Nil) # Nil)
    IN  [k \in DOMAIN kept |-> cloneItems[h[kept[k]].ID]]

\* Clone with `clone.counter = r.counter; clone.nextID = r.nextID` left out
Clone_NoCounters(c, h, order) ==
    LET r == CloneItems(c, h, order, New)
    IN  Result([r.c EXCEPT !.packageRels  = ClonePartition(c.packageRels, h, r.c.items),
                           !.documentRels = ClonePartition(c.documentRels, h, r.c.items)],
               r.h, Nil)

\* the call c.<method>(i[1], i[2], i[3])
AddBy(method, c, h, i) ==
    CASE method = "AddRelationship" -> AddRelationship(c, h, i[1], i[2], i[3])
      [] method = "AddPackageRelationship" -> AddPackageRelationship(c, h, i[1], i[2], i[3])
      [] method = "AddDocumentRelationship" -> AddDocumentRelationship(c, h, i[1], i[2], i[3])

\* the calls of NewDefault, in order: the method and its arguments
DefaultCalls ==
    << <<"AddPackageRelationship", <<TypeDocument, <<"word", "document.xml">>, TargetModeInternal>>>>,
       <<"AddPackageRelationship", <<TypeCoreProperties, <<"docProps", "core.xml">>, TargetModeInternal>>>>,
       <<"AddPackageRelationship", <<TypeExtProperties, <<"docProps", "app.xml">>, TargetModeInternal>>>>,
       <<"AddDocumentRelationship", <<TypeStyles, <<"styles.xml">>, TargetModeInternal>>>>,
       <<"AddDocumentRelationship", <<TypeSettings, <<"settings.xml">>, TargetModeInternal>>>>,
       <<"AddDocumentRelationship", <<TypeWebSettings, <<"webSettings.xml">>, TargetModeInternal>>>>,
       <<"AddDocumentRelationship", <<TypeFontTable, <<"fontTable.xml">>, TargetModeInternal>>>>,
       <<"AddDocumentRelationship", <<TypeTheme, <<"theme", "theme1.xml">>, TargetModeInternal>>>> >>

\* the calls calls[k], calls[k+1], ... made one after the other on the outcome r
RECURSIVE CallEach(_, _, _)
CallEach(calls, k, r) ==
    IF k > Len(calls) THEN Result(r.c, r.h, Nil)
    ELSE CHOOSE out \in {CallEach(calls, k + 1, x) :
                             x \in {AddBy(calls[k][1], r.c, r.h, calls[k][2])}} : TRUE

\* NewDefault with the theme put among the package relationships
NewDefault_ThemeInPackage ==
    CallEach([DefaultCalls EXCEPT ![8][1] = "AddPackageRelationship"], 1, Result(New, <<>>, Nil))

\* NewDefault(): the value returned is the new collection (field c of the result)
NewDefault == CallEach(DefaultCalls, 1, Result(New, <<>>, Nil))

\* Relationship.Validate with the check of the target left out
RelValidate_NoTargetCheck(rel) ==
    IF rel.ID = <<"">> THEN "relationship ID is required"
    ELSE IF rel.Type = <<"">> THEN "relationship type is required"
    ELSE IF /\ rel.TargetMode # ""
            /\ rel.TargetMode # TargetModeInternal
            /\ rel.TargetMode # TargetModeExternal
         THEN "invalid target mode"
    ELSE "nil"

\* Relationship.Validate: the error returned ("nil": none); <<"">> is the empty string
RelValidate(rel) ==
    IF rel.ID = <<"">> THEN "relationship ID is required"
    ELSE IF rel.Type = <<"">> THEN "relationship type is required"
    ELSE IF rel.Target = <<"">> THEN "relationship target is required"
    ELSE IF /\ rel.TargetMode # ""
            /\ rel.TargetMode # TargetModeInternal
            /\ rel.TargetMode # TargetModeExternal
         THEN "invalid target mode"
    ELSE "nil"

\* Relationships.Validate: the values a call can return. The first loop never
\* fails (the keys of a map are distinct); the second returns the error of the
\* first invalid item it visits, and map iteration can visit any of them first.
Validate(c, h) ==
    LET invalid == {p \in Range(c.items) : RelValidate(h[p]) # "nil"}
    IN  IF invalid = {} THEN {"nil"}
        ELSE {"invalid relationship: " \o RelValidate(h[p]) : p \in invalid}

\* xml.EscapeText on one character of an attribute value
EscapeChar(ch) ==
    CASE ch = "&" -> "&amp;"
      [] ch = "<" -> "&lt;"
      [] ch = ">" -> "&gt;"
      [] ch = "'" -> "&#39;"
      [] ch = "\"" -> "&#34;"
      [] OTHER -> ch

\* xml.EscapeText on a string
RECURSIVE EscapeText(_)
EscapeText(str) ==
    IF Len(str) = 0 THEN ""
    ELSE EscapeChar(SubSeq(str, 1, 1)) \o EscapeText(SubSeq(str, 2, Len(str)))

\* the escaped form of a path or URI: "/" is not escaped
EscapePath(v) == [k \in DOMAIN v |-> EscapeText(v[k])]

\* the entities an XML reader resolves in an attribute value
Entities ==
    { <<"&amp;", "&">>, <<"&lt;", "<">>, <<"&gt;", ">">>, <<"&#39;", "'">>,
      <<"&#34;", "\"">>, <<"&apos;", "'">>, <<"&quot;", "\"">> }

StartsWith(str, prefix) ==
    Len(str) >= Len(prefix) /\ SubSeq(str, 1, Len(prefix)) = prefix

\* an XML reader on the text of an attribute value
RECURSIVE UnescapeText(_)
UnescapeText(str) ==
    IF Len(str) = 0 THEN ""
    ELSE LET hits == {e \in Entities : StartsWith(str, e[1])}
         IN  IF hits # {}
             THEN LET e == CHOOSE e \in hits : TRUE
                  IN  e[2] \o UnescapeText(SubSeq(str, Len(e[1]) + 1, Len(str)))
             ELSE SubSeq(str, 1, 1) \o UnescapeText(SubSeq(str, 2, Len(str)))

UnescapePath(v) == [k \in DOMAIN v |-> UnescapeText(v[k])]

\* the RelationshipXML value with TargetMode copied for every relationship
relXML_AlwaysMode(rel) ==
    [ ID |-> rel.ID, Type |-> rel.Type, Target |-> rel.Target,
      TargetMode |-> rel.TargetMode ]

\* the RelationshipXML value PackageXML and DocumentXML build for a relationship
relXML(rel) ==
    [ ID |-> rel.ID, Type |-> rel.Type, Target |-> rel.Target,
      TargetMode |-> IF rel.TargetMode = TargetModeExternal THEN rel.TargetMode ELSE "" ]

\* xml.MarshalIndent on one RelationshipXML: the attributes of the self-closing
\* element, in field order; TargetMode is omitempty. An id (rId%d) holds no
\* character that is escaped.
MarshalElement(x) ==
    << <<"Id", x.ID>>, <<"Type", EscapePath(x.Type)>>, <<"Target", EscapePath(x.Target)>> >>
        \o (IF x.TargetMode # "" THEN << <<"TargetMode", EscapeText(x.TargetMode)>> >> ELSE <<>>)

\* the Relationship elements of the manifest of a partition, in document order
ManifestXML(slice, h) == [k \in DOMAIN slice |-> MarshalElement(relXML(h[slice[k]]))]

PackageXML(c, h) == ManifestXML(c.packageRels, h)

DocumentXML(c, h) == ManifestXML(c.documentRels, h)

\* an XML reader on one element: whether it has the attribute, and its value
HasAttr(el, name) == \E k \in DOMAIN el : el[k][1] = name

AttrOf(el, name) == el[CHOOSE k \in DOMAIN el : el[k][1] = name][2]

\* the (id, kind, target, mode) read from an element; mode "" when absent
ReadTuple(el) ==
    << AttrOf(el, "Id"), UnescapePath(AttrOf(el, "Type")), UnescapePath(AttrOf(el, "Target")),
       IF HasAttr(el, "TargetMode") THEN UnescapeText(AttrOf(el, "TargetMode")) ELSE "" >>

\* c.Clone(): the value returned is the new collection (field c of the result)
Clone(c, h, order) ==
    LET r == CloneItems(c, h, order, New)
    IN  Result([r.c EXCEPT !.packageRels  = ClonePartition(c.packageRels, h, r.c.items),
                           !.documentRels = ClonePartition(c.documentRels, h, r.c.items),
                           !.counter      = c.counter,
                           !.nextID       = c.nextID],
               r.h, Nil)

----------------------------------------------------------------------------
(* Inputs of the calls made on the collection *)

FileNames == {[base |-> "a", ext |-> ".png"], [base |-> "b", ext |-> ".png"]}

\* uuid.New().String()[:8]
Tokens == {"0a1b2c3d", "4e5f6a7b"}

\* "https://example.com" and the relative link "media/a.png"
URLs == {<<"https:", "", "example.com">>, <<"media", "a.png">>}

PartFiles == {<<"header1.xml">>}

\* (kind, target, mode) given to the three generic add methods
RelInputs ==
    { <<TypeHyperlink, <<"https:", "", "example.com">>, TargetModeExternal>>,
      <<TypeImage, <<"media", "a.png">>, TargetModeInternal>>,
      <<TypeHeader, <<"header1.xml">>, TargetModeInternal>> }

RemoveIDs == {FormatID(n) : n \in 1..MaxHeap}

----------------------------------------------------------------------------
(* The calls, as actions on the one collection `rels` *)

InitRels ==
    /\ heap = <<>>
    /\ rels = New
    /\ last = [op |-> "New", arg |-> <<>>, ret |-> Nil, again |-> FALSE]
    /\ clearedAt = 0
    /\ other = New
    /\ phase = "store"

\* a call `op(arg)` whose outcome is `res`
Call(op, arg, res) ==
    /\ Len(res.h) <= MaxHeap
    /\ rels' = res.c
    /\ heap' = res.h
    /\ last' = [op |-> op, arg |-> arg, ret |-> res.ret,
                again |-> (last.op = op /\ last.arg = arg)]
    /\ UNCHANGED <<clearedAt, other, phase, wVars, poolVars, docVars>>

DoAddRelationship ==
    \E i \in RelInputs :
        Call("AddRelationship", i, AddRelationship(rels, heap, i[1], i[2], i[3]))

DoAddPackageRelationship ==
    \E i \in RelInputs :
        Call("AddPackageRelationship", i, AddPackageRelationship(rels, heap, i[1], i[2], i[3]))

DoAddDocumentRelationship ==
    \E i \in RelInputs :
        Call("AddDocumentRelationship", i, AddDocumentRelationship(rels, heap, i[1], i[2], i[3]))

DoAddImage ==
    \E f \in FileNames : \E existing \in GetByTarget(rels, heap, MediaTarget(f)) :
        Call("AddImage", f, AddImage(rels, heap, f, existing))

DoAddUniqueImage ==
    \E f \in FileNames : \E existing \in GetByTarget(rels, heap, MediaTarget(f)) :
        \E token \in Tokens :
            Call("AddUniqueImage", f, AddUniqueImage(rels, heap, f, existing, token))

DoAddHyperlink ==
    \E url \in URLs : Call("AddHyperlink", url, AddHyperlink(rels, heap, url))

DoGetOrCreateHyperlink ==
    \E url \in URLs :
        Call("GetOrCreateHyperlink", url, GetOrCreateHyperlink(rels, heap, url))

DoAddHeader ==
    \E f \in PartFiles : Call("AddHeader", f, AddHeader(rels, heap, f))

DoAddFooter ==
    \E f \in PartFiles : Call("AddFooter", f, AddFooter(rels, heap, f))

DoAddChart ==
    \E f \in PartFiles : Call("AddChart", f, AddChart(rels, heap, f))

DoAddCustomXML ==
    \E f \in PartFiles : Call("AddCustomXML", f, AddCustomXML(rels, heap, f))

DoRemove ==
    \E id \in RemoveIDs : Call("Remove", id, Remove(rels, heap, id))

DoClear ==
    /\ rels' = Clear(rels)
    /\ last' = [op |-> "Clear", arg |-> <<>>, ret |-> Nil, again |-> last.op = "Clear"]
    /\ clearedAt' = Len(heap)
    /\ UNCHANGED <<heap, other, phase, wVars, poolVars, docVars>>

NextRels ==
    \/ DoAddRelationship
    \/ DoAddPackageRelationship
    \/ DoAddDocumentRelationship
    \/ DoAddImage
    \/ DoAddUniqueImage
    \/ DoAddHyperlink
    \/ DoGetOrCreateHyperlink
    \/ DoAddHeader
    \/ DoAddFooter
    \/ DoAddChart
    \/ DoAddCustomXML
    \/ DoRemove
    \/ DoClear

----------------------------------------------------------------------------
(* Two collections: a program builds `other`, then `rels`, and calls            *)
(* rels.Merge(other); or it builds `other`, takes rels = other.Clone() and      *)
(* makes one more call on either of the two.                                   *)

\* (kind, target, mode) of the relationships the two collections are built from
BuildInputs ==
    { <<TypeHyperlink, <<"https:", "", "example.com">>, TargetModeExternal>>,
      <<TypeHeader, <<"header1.xml">>, TargetModeInternal>> }

AddMethods == {"AddRelationship", "AddPackageRelationship", "AddDocumentRelationship"}

BuildIDs == {FormatID(n) : n \in 1..(MaxBuilt + 1)}

\* the call after a Clone is the last one of the program
AfterCall == IF phase = "cloned" THEN "done" ELSE phase

InitPair ==
    /\ heap = <<>>
    /\ rels = New
    /\ last = [op |-> "New", arg |-> <<>>, ret |-> Nil, again |-> FALSE]
    /\ clearedAt = 0
    /\ other = New
    /\ phase = "build"

\* a call `op(arg)` on rels whose outcome is `res`
CallRels(op, arg, res) ==
    /\ rels' = res.c
    /\ heap' = res.h
    /\ last' = [op |-> op, arg |-> arg, ret |-> res.ret, again |-> FALSE]
    /\ UNCHANGED <<clearedAt, other, wVars, poolVars, docVars>>

\* a call `op(arg)` on other whose outcome is `res`
CallOther(op, arg, res) ==
    /\ other' = res.c
    /\ heap' = res.h
    /\ last' = [op |-> op, arg |-> arg, ret |-> res.ret, again |-> FALSE]
    /\ UNCHANGED <<clearedAt, rels, wVars, poolVars, docVars>>

\* other.Add...Relationship(kind, target, mode): while other is built, or after the Clone
OtherAdd ==
    /\ \/ phase = "build" /\ rels = New /\ other.nextID <= MaxBuilt
       \/ phase = "cloned"
    /\ \E method \in AddMethods : \E i \in BuildInputs :
          CallOther("other." \o method, i, AddBy(method, other, heap, i))
    /\ phase' = AfterCall

\* other.Remove(id)
OtherRemove ==
    /\ \/ phase = "build" /\ rels = New
       \/ phase = "cloned"
    /\ \E id \in BuildIDs : CallOther("other.Remove", id, Remove(other, heap, id))
    /\ phase' = AfterCall

\* rels.AddDocumentRelationship(kind, target, mode)
ReceiverAdd ==
    /\ \/ phase = "build" /\ rels.nextID <= MaxBuilt
       \/ phase = "cloned"
    /\ \E i \in BuildInputs :
          CallRels("AddDocumentRelationship", i,
                   AddDocumentRelationship(rels, heap, i[1], i[2], i[3]))
    /\ phase' = AfterCall

\* rels.Remove(id)
ReceiverRemove ==
    /\ phase \in {"build", "cloned"}
    /\ \E id \in BuildIDs : CallRels("Remove", id, Remove(rels, heap, id))
    /\ phase' = AfterCall

\* rels.Merge(other)
DoMerge ==
    /\ phase = "build"
    /\ \E order \in Orders(DOMAIN other.items) :
          CallRels("Merge", order, Merge(rels, heap, other, order))
    /\ phase' = "merged"

\* rels = other.Clone()
DoClone ==
    /\ phase = "build"
    /\ rels = New
    /\ \E order \in Orders(DOMAIN other.items) :
          CallRels("Clone", order, Clone(other, heap, order))
    /\ phase' = "cloned"

NextPair ==
    \/ OtherAdd
    \/ OtherRemove
    \/ ReceiverAdd
    \/ ReceiverRemove
    \/ DoMerge
    \/ DoClone

----------------------------------------------------------------------------
(* A program that starts from NewDefault(), adds and removes relationships,   *)
(* validates the collection and renders the two manifests                     *)

LogoFile == [base |-> "logo", ext |-> ".png"]

\* the number of relationships NewDefault adds
DefaultCount == 8

\* "https://example.com" and "https://example.com?a=1&b=<2>"
DocURLs == {<<"https:", "", "example.com">>, <<"https:", "", "example.com?a=1&b=<2>">>}

\* (kind, target, mode) given to AddRelationship: an empty mode, an unknown mode,
\* an empty kind, an empty target, an empty target with an empty mode
LooseInputs ==
    { <<TypeHeader, <<"header1.xml">>, "">>,
      <<TypeHeader, <<"header1.xml">>, "Hidden">>,
      <<<<"">>, <<"header1.xml">>, TargetModeInternal>>,
      <<TypeHeader, <<"">>, TargetModeInternal>>,
      <<TypeFooter, <<"">>, "">> }

\* an external package relationship, to "https://example.org/terms"
PackageInputs == { <<TypeHyperlink, <<"https:", "", "example.org", "terms">>, TargetModeExternal>> }

\* a package default and the two ids given out first after the defaults
DefaultRemoveIDs == {FormatID(1), FormatID(9), FormatID(10)}

InitDefault ==
    /\ heap = NewDefault.h
    /\ rels = NewDefault.c
    /\ last = [op |-> "NewDefault", arg |-> <<>>, ret |-> Nil, again |-> FALSE]
    /\ clearedAt = 0
    /\ other = New
    /\ phase = "default"

\* a call `op(arg)` on rels whose outcome is `res`
CallDefault(op, arg, res) ==
    /\ Len(res.h) <= DefaultCount + MaxAdded
    /\ rels' = res.c
    /\ heap' = res.h
    /\ last' = [op |-> op, arg |-> arg, ret |-> res.ret, again |-> FALSE]
    /\ UNCHANGED <<clearedAt, other, phase, wVars, poolVars, docVars>>

\* a call that only reads rels and returns ret
Query(op, ret) ==
    /\ last' = [op |-> op, arg |-> <<>>, ret |-> ret, again |-> FALSE]
    /\ UNCHANGED <<heap, rels, clearedAt, other, phase, wVars, poolVars, docVars>>

DefaultAddHyperlink ==
    \E url \in DocURLs : CallDefault("AddHyperlink", url, AddHyperlink(rels, heap, url))

DefaultAddImage ==
    \E existing \in GetByTarget(rels, heap, MediaTarget(LogoFile)) :
        CallDefault("AddImage", LogoFile, AddImage(rels, heap, LogoFile, existing))

DefaultAddRelationship ==
    \E i \in LooseInputs :
        CallDefault("AddRelationship", i, AddRelationship(rels, heap, i[1], i[2], i[3]))

DefaultAddPackageRelationship ==
    \E i \in PackageInputs :
        CallDefault("AddPackageRelationship", i,
                    AddPackageRelationship(rels, heap, i[1], i[2], i[3]))

DefaultRemove ==
    \E id \in DefaultRemoveIDs : CallDefault("Remove", id, Remove(rels, heap, id))

DoValidate ==
    \E err \in Validate(rels, heap) : Query("Validate", err)

DoPackageXML == Query("PackageXML", PackageXML(rels, heap))

DoDocumentXML == Query("DocumentXML", DocumentXML(rels, heap))

NextDefault ==
    \/ DefaultAddHyperlink
    \/ DefaultAddImage
    \/ DefaultAddRelationship
    \/ DefaultAddPackageRelationship
    \/ DefaultRemove
    \/ DoValidate
    \/ DoPackageXML
    \/ DoDocumentXML

----------------------------------------------------------------------------
(* writer.Writer: the parts *)

\* the components of Write, in the order of its list
AllComponents ==
    << "[Content_Types].xml", "_rels/.rels", "word/_rels/document.xml.rels",
       "word/document.xml", "docProps/core.xml", "docProps/app.xml",
       "word/numbering.xml", "word/styles.xml" >>

components == SubSeq(AllComponents, 1, NumParts)

Parts == 1..NumParts

\* what the component's Byte() returns on a snapshot where it does not fail
PartBytes(i) == [bytesOf |-> components[i]]

\* media.TargetPath() + media.FileName()
MediaEntryName(f) == "word/media/" \o f.base \o f.ext

\* media.RawContent()
MediaBytes(f) == [bytesOf |-> f.base \o f.ext]

RECURSIVE SeqsUpTo(_, _)
SeqsUpTo(S, n) ==
    IF n = 0 THEN {<<>>}
    ELSE LET shorter == SeqsUpTo(S, n - 1)
         IN  shorter \cup {Append(q, x) : q \in shorter, x \in S}

MediaLists == SeqsUpTo(FileNames, MaxMedia)

----------------------------------------------------------------------------
(* archive/zip as Write uses it: one open entry at a time *)

NewZip == [entries |-> <<>>, closed |-> FALSE, corrupt |-> FALSE, sinkErr |-> FALSE]

\* The zip writer buffers what it writes to the output sink. Whether a call on it
\* reaches the sink depends on how full the buffer is, and a sink can fail at any
\* write; once a write to the sink failed (sinkErr) every later call fails.
\* TRUE: the call fails on the sink.
SinkOutcomes(z) == IF z.sinkErr THEN {TRUE} ELSE BOOLEAN

\* the entries with the last one closed (Create and Close finish the entry before)
CloseLast(entries) ==
    IF entries = <<>> THEN entries
    ELSE [entries EXCEPT ![Len(entries)].closed = TRUE]

\* zipWriter.Create(name): the new entry is the last one; `late` records that the
\* stream had been closed already. A Create that fails on the sink returns no entry.
ZipCreate(z, name, fail) ==
    IF fail THEN [z EXCEPT !.entries = CloseLast(@), !.sinkErr = TRUE]
    ELSE [z EXCEPT !.entries = Append(CloseLast(@),
                 [name |-> name, data |-> <<>>, closed |-> FALSE, late |-> z.closed])]

\* the error Create returns
ZipCreateErr(fail) == IF fail THEN "sink failed" ELSE "nil"

\* Write on the io.Writer that Create returned as entry number e
EntryWriteErr(z, e, fail) ==
    IF z.entries[e].closed THEN "zip: write to closed file"
    ELSE IF fail THEN "sink failed" ELSE "nil"

EntryWrite(z, e, bytes, fail) ==
    IF z.entries[e].closed THEN z
    ELSE IF fail THEN [z EXCEPT !.sinkErr = TRUE]
    ELSE [z EXCEPT !.entries[e].data = Append(@, bytes)]

\* a Close that flushes but leaves the stream open
ZipClose_OnlyFlush(z, fail) ==
    [z EXCEPT !.entries = CloseLast(@), !.sinkErr = @ \/ fail]

\* zipWriter.Close(): it flushes the buffer to the sink
ZipClose(z, fail) ==
    [z EXCEPT !.entries = CloseLast(@), !.closed = TRUE, !.sinkErr = @ \/ fail]

\* the goroutine that runs Write; goroutine i > 0 is the one started for component i
MainThread == 0

\* a thread enters a call on the zip writer
EnterZip(t) ==
    /\ busy' = busy \cup {t}
    /\ overlapped' = IF busy = {} THEN overlapped ELSE overlapped \cup busy \cup {t}

\* a thread leaves its call, whose effect gave the zip writer z: a call that ran
\* together with another one is a data race, and may have damaged the archive
LeaveZip(t, z) ==
    /\ busy' = busy \ {t}
    /\ overlapped' = overlapped \ {t}
    /\ \E damaged \in (IF t \in overlapped THEN BOOLEAN ELSE {FALSE}) :
          zip' = [z EXCEPT !.corrupt = @ \/ damaged]

----------------------------------------------------------------------------
(* Writer.Write *)

\* a nil error
NoErr == "nil"

\* Write has not returned yet
NotReturned == [ok |-> FALSE, path |-> "", cause |-> "pending"]

Ok == [ok |-> TRUE, path |-> "", cause |-> NoErr]

\* an error that always names the first component
WriteError_FirstPath(i, err) == [ok |-> FALSE, path |-> components[1], cause |-> err]

\* fmt.Errorf("write %s: %w", component.Path(), err)
WriteError(i, err) == [ok |-> FALSE, path |-> components[i], cause |-> err]

\* fmt.Errorf("write media file %s: %w", media.FileName(), err)
MediaError(f, err) == [ok |-> FALSE, path |-> f.base \o f.ext, cause |-> err]

\* the older writeFile calls Write on the nil writer of a failed Create: Write
\* does not return, the panic goes to its caller
Panic(f) == [ok |-> FALSE, path |-> f.base \o f.ext, cause |-> "panic: nil pointer dereference"]

\* the check `if err != nil` of both loops gone
IsError_Never(err) == FALSE

\* `if err != nil`
IsError(err) == err # NoErr

InitWriter ==
    /\ wmode \in {"concurrent", "sequential", "legacy"}
    /\ failing \in SUBSET Parts
    /\ media \in MediaLists
    /\ wpc = "idle"
    /\ idx = 0
    /\ tasks = [i \in Parts |-> [pc |-> "none", entry |-> Nil, err |-> NoErr]]
    /\ chan = <<>>
    /\ zip = NewZip
    /\ busy = {}
    /\ overlapped = {}
    /\ perr = [i \in Parts |-> "not run"]
    /\ merr = [k \in DOMAIN media |-> "not run"]
    /\ wret = NotReturned

\* the writer of a store-only behaviour: Write is never called
InitIdleWriter ==
    /\ InitWriter
    /\ wmode = "sequential"
    /\ failing = {}
    /\ media = <<>>

\* Write up to the choice of the strategy; writeConcurrently starts one goroutine
\* per component before it receives anything
WriteStart ==
    /\ wpc = "idle"
    /\ zip' = NewZip
    /\ IF wmode = "concurrent"
       THEN /\ tasks' = [i \in Parts |-> [tasks[i] EXCEPT !.pc = "start"]]
            /\ wpc' = "collect"
            /\ idx' = 0
       ELSE /\ wpc' = "parts"
            /\ idx' = 1
            /\ UNCHANGED tasks
    /\ UNCHANGED <<relVars, poolVars, docVars, wmode, failing, media, merr, chan, busy, overlapped, perr, wret>>

\* Write returns r: the deferred zipWriter.Close() is entered
Return(r) ==
    /\ wret' = r
    /\ wpc' = "closing"
    /\ EnterZip(MainThread)

\* the deferred Close is done and Write has returned: the error of Close is
\* logged (dropped by the older Write), the value returned stays
CloseEnd ==
    /\ wpc = "closing"
    /\ \E fail \in SinkOutcomes(zip) : LeaveZip(MainThread, ZipClose(zip, fail))
    /\ wpc' = "returned"
    /\ UNCHANGED <<relVars, poolVars, docVars, wmode, failing, media, merr, idx, tasks, chan, perr, wret>>

\* goroutine i, writeToZip: w.zipWriter.Create(part.Path()) is entered
TaskBeginCreate(i) ==
    /\ tasks[i].pc = "start"
    /\ tasks' = [tasks EXCEPT ![i].pc = "inCreate"]
    /\ EnterZip(i)
    /\ UNCHANGED <<relVars, poolVars, docVars, wmode, failing, media, merr, wpc, idx, chan, zip, perr, wret>>

\* goroutine i: Create returns the entry's writer, or an error and writeToZip with it
TaskEndCreate(i) ==
    /\ tasks[i].pc = "inCreate"
    /\ \E fail \in SinkOutcomes(zip) :
          /\ LeaveZip(i, ZipCreate(zip, components[i], fail))
          /\ IF fail
             THEN /\ tasks' = [tasks EXCEPT ![i].pc = "written", ![i].err = ZipCreateErr(fail)]
                  /\ perr' = [perr EXCEPT ![i] = ZipCreateErr(fail)]
             ELSE /\ tasks' = [tasks EXCEPT ![i].pc = "created",
                                            ![i].entry = Len(zip.entries) + 1]
                  /\ UNCHANGED perr
    /\ UNCHANGED <<relVars, poolVars, docVars, wmode, failing, media, merr, wpc, idx, chan, wret>>

\* goroutine i, part.WriteTo(writer): Byte() fails, or its bytes go to w.Write
TaskBeginWrite(i) ==
    /\ tasks[i].pc = "created"
    /\ IF i \in failing
       THEN /\ tasks' = [tasks EXCEPT ![i].pc = "written", ![i].err = "Byte failed"]
            /\ perr' = [perr EXCEPT ![i] = "Byte failed"]
            /\ UNCHANGED <<busy, overlapped>>
       ELSE /\ tasks' = [tasks EXCEPT ![i].pc = "inWrite"]
            /\ EnterZip(i)
            /\ UNCHANGED perr
    /\ UNCHANGED <<relVars, poolVars, docVars, wmode, failing, media, merr, wpc, idx, chan, zip, wret>>

\* goroutine i: w.Write(data) returns, and writeToZip with it
TaskEndWrite(i) ==
    /\ tasks[i].pc = "inWrite"
    /\ \E fail \in SinkOutcomes(zip) :
          /\ LeaveZip(i, EntryWrite(zip, tasks[i].entry, PartBytes(i), fail))
          /\ tasks' = [tasks EXCEPT ![i].pc = "written",
                                    ![i].err = EntryWriteErr(zip, tasks[i].entry, fail)]
          /\ perr' = [perr EXCEPT ![i] = EntryWriteErr(zip, tasks[i].entry, fail)]
    /\ UNCHANGED <<relVars, poolVars, docVars, wmode, failing, media, merr, wpc, idx, chan, wret>>

\* goroutine i: resultChan <- componentResult{comp, err} (the channel has room
\* for every result, so the send never blocks)
TaskSend(i) ==
    /\ tasks[i].pc = "written"
    /\ chan' = Append(chan, [component |-> i, err |-> tasks[i].err])
    /\ tasks' = [tasks EXCEPT ![i].pc = "sent"]
    /\ UNCHANGED <<relVars, poolVars, docVars, wmode, failing, media, merr, wpc, idx, zip, busy, overlapped, perr, wret>>

\* writeConcurrently: result := <-resultChan, for the idx-th time
Collect ==
    /\ wpc = "collect"
    /\ chan # <<>>
    /\ chan' = Tail(chan)
    /\ IF IsError(Head(chan).err)
       THEN /\ Return(WriteError(Head(chan).component, Head(chan).err))
            /\ UNCHANGED idx
       ELSE /\ idx' = idx + 1
            /\ wpc' = IF idx + 1 = Len(components) THEN "media" ELSE "collect"
            /\ UNCHANGED <<wret, busy, overlapped>>
    /\ UNCHANGED <<relVars, poolVars, docVars, wmode, failing, media, merr, tasks, zip, perr>>

\* the call of one writeToZip or writeMediaFile that fails on the sink:
\* 0 none, 1 its Create, 2 its Write
SinkChoices(z) == IF z.sinkErr THEN {1} ELSE {0, 1, 2}

\* the error writeToZip(components[i]) returns when run alone on zip writer z
WriteToZipErr(z, i, failAt) ==
    IF failAt = 1 THEN ZipCreateErr(TRUE)
    ELSE IF i \in failing THEN "Byte failed"
    ELSE EntryWriteErr(ZipCreate(z, components[i], FALSE), Len(z.entries) + 1, failAt = 2)

\* the zip writer after writeToZip(components[i]) run alone on z
WriteToZip(z, i, failAt) ==
    IF failAt = 1 THEN ZipCreate(z, components[i], TRUE)
    ELSE IF i \in failing THEN ZipCreate(z, components[i], FALSE)
    ELSE EntryWrite(ZipCreate(z, components[i], FALSE), Len(z.entries) + 1,
                    PartBytes(i), failAt = 2)

\* writeSequentially, and the loop of the older Write: one component
WritePart ==
    /\ wpc = "parts"
    /\ \E failAt \in SinkChoices(zip) :
          /\ zip' = WriteToZip(zip, idx, failAt)
          /\ perr' = [perr EXCEPT ![idx] = WriteToZipErr(zip, idx, failAt)]
          /\ IF IsError(WriteToZipErr(zip, idx, failAt))
             THEN /\ Return(WriteError(idx, WriteToZipErr(zip, idx, failAt)))
                  /\ UNCHANGED idx
             ELSE /\ idx' = idx + 1
                  /\ wpc' = IF idx = Len(components) THEN "media" ELSE "parts"
                  /\ UNCHANGED <<wret, busy, overlapped>>
    /\ UNCHANGED <<relVars, poolVars, docVars, wmode, failing, media, merr, tasks, chan>>

\* the zip writer after writeMediaFile(f): Create, then Write of the raw content
WriteMediaFile(z, f, failAt) ==
    IF failAt = 1 THEN ZipCreate(z, MediaEntryName(f), TRUE)
    ELSE EntryWrite(ZipCreate(z, MediaEntryName(f), FALSE), Len(z.entries) + 1,
                    MediaBytes(f), failAt = 2)

\* the error writeMediaFile(f) returns (the older writeFile: the error of Write)
WriteMediaFileErr(z, f, failAt) ==
    IF failAt = 1 THEN ZipCreateErr(TRUE)
    ELSE EntryWriteErr(ZipCreate(z, MediaEntryName(f), FALSE), Len(z.entries) + 1, failAt = 2)

\* the media loop makes two calls per file; failCall is the number of the call
\* that fails on the sink first (0: none). What that means for file number k:
MediaFailAt(z, k, failCall) ==
    IF z.sinkErr \/ failCall = 2 * k - 1 THEN 1
    ELSE IF failCall = 2 * k THEN 2 ELSE 0

\* writeMediaFiles from file k on: the zip writer it leaves, what each file's
\* writeMediaFile returned (res), and the value returned
RECURSIVE WriteMediaFrom(_, _, _, _)
WriteMediaFrom(z, k, failCall, res) ==
    IF k > Len(media) THEN [zip |-> z, merr |-> res, ret |-> Ok]
    ELSE LET failAt == MediaFailAt(z, k, failCall)
             err == WriteMediaFileErr(z, media[k], failAt)
         IN  IF IsError(err)
             THEN [ zip  |-> WriteMediaFile(z, media[k], failAt),
                    merr |-> [res EXCEPT ![k] = err],
                    ret  |-> MediaError(media[k], err) ]
             ELSE WriteMediaFrom(WriteMediaFile(z, media[k], failAt), k + 1, failCall,
                                 [res EXCEPT ![k] = err])

\* the media loop of the older Write from file k on: the error of writeFile is
\* logged and the loop goes on; a failed Create makes writeFile panic
RECURSIVE LegacyMediaFrom(_, _, _, _)
LegacyMediaFrom(z, k, failCall, res) ==
    IF k > Len(media) THEN [zip |-> z, merr |-> res, ret |-> Ok]
    ELSE LET failAt == MediaFailAt(z, k, failCall)
             err == WriteMediaFileErr(z, media[k], failAt)
         IN  IF failAt = 1
             THEN [ zip  |-> WriteMediaFile(z, media[k], failAt),
                    merr |-> [res EXCEPT ![k] = err],
                    ret  |-> Panic(media[k]) ]
             ELSE LegacyMediaFrom(WriteMediaFile(z, media[k], failAt), k + 1, failCall,
                                  [res EXCEPT ![k] = err])

\* writeMediaFiles (or the media loop of the older Write), and Write's return
WriteMediaFiles ==
    /\ wpc = "media"
    /\ \E failCall \in 0..(2 * Len(media)) :
          \E r \in { IF wmode = "legacy" THEN LegacyMediaFrom(zip, 1, failCall, merr)
                                         ELSE WriteMediaFrom(zip, 1, failCall, merr) } :
              /\ zip' = r.zip
              /\ merr' = r.merr
              /\ Return(r.ret)
    /\ UNCHANGED <<relVars, poolVars, docVars, wmode, failing, media, idx, tasks, chan, perr>>

NextWriter ==
    \/ WriteStart
    \/ \E i \in Parts : TaskBeginCreate(i)
    \/ \E i \in Parts : TaskEndCreate(i)
    \/ \E i \in Parts : TaskBeginWrite(i)
    \/ \E i \in Parts : TaskEndWrite(i)
    \/ \E i \in Parts : TaskSend(i)
    \/ Collect
    \/ WritePart
    \/ WriteMediaFiles
    \/ CloseEnd

\* writeSequentially run from component i on zip writer z, up to Write's return,
\* on a sink that does not fail: the zip writer it leaves and the value returned
RECURSIVE writeSequentially(_, _)
writeSequentially(z, i) ==
    IF i > Len(components)
    THEN [ zip |-> ZipClose(WriteMediaFrom(z, 1, 0, [k \in DOMAIN media |-> "not run"]).zip, FALSE),
           ret |-> Ok ]
    ELSE IF IsError(WriteToZipErr(z, i, 0))
         THEN [ zip |-> ZipClose(WriteToZip(z, i, 0), FALSE),
                ret |-> WriteError(i, WriteToZipErr(z, i, 0)) ]
         ELSE writeSequentially(WriteToZip(z, i, 0), i + 1)

----------------------------------------------------------------------------
(* One whole Write of a document whose collection is `rels` *)

\* the name of the part a path leads to: its segments joined with "/"
RECURSIVE PartName(_)
PartName(segs) ==
    IF Len(segs) = 1 THEN segs[1] ELSE segs[1] \o "/" \o PartName(Tail(segs))

\* rendering that takes an id from the collection
RenderManifests_Allocating(c, h) ==
    Result(generateID(c).c, h, <<PackageXML(c, h), DocumentXML(c, h)>>)

\* Relationships.Byte() and DocumentRelationship.Byte(): the collection after
\* them, and the two manifests they return
RenderManifests(c, h) ==
    Result(c, h, <<PackageXML(c, h), DocumentXML(c, h)>>)

\* Byte() of component number i of Write's list, given the two manifests
ComponentBytes(i, manifests) ==
    [ bytesOf |-> AllComponents[i],
      xml |-> IF AllComponents[i] = "_rels/.rels" THEN manifests[1]
              ELSE IF AllComponents[i] = "word/_rels/document.xml.rels" THEN manifests[2]
              ELSE <<>> ]

\* writeSequentially from component i on, when nothing fails
RECURSIVE WriteComponents(_, _, _)
WriteComponents(z, i, manifests) ==
    IF i > Len(AllComponents) THEN z
    ELSE CHOOSE out \in
            { WriteComponents(y, i + 1, manifests) :
                y \in { EntryWrite(x, Len(x.entries), ComponentBytes(i, manifests), FALSE) :
                          x \in {ZipCreate(z, AllComponents[i], FALSE)} } } : TRUE

\* Writer.Write on the document, with no media and nothing failing
DefaultWrite ==
    /\ wpc = "idle"
    /\ \E r \in {RenderManifests(rels, heap)} :
          /\ rels' = r.c
          /\ heap' = r.h
          /\ zip' = ZipClose(WriteComponents(NewZip, 1, r.ret), FALSE)
    /\ wpc' = "returned"
    /\ wret' = Ok
    /\ last' = [op |-> "Write", arg |-> <<>>, ret |-> Nil, again |-> FALSE]
    /\ UNCHANGED <<clearedAt, other, phase, wmode, failing, media, idx, tasks, chan,
                   busy, overlapped, perr, merr, poolVars, docVars>>

\* the calls on the collection come before the Write
NextPackage ==
    \/ wpc = "idle" /\ NextDefault
    \/ DefaultWrite

----------------------------------------------------------------------------
(* The image calls alone on one collection *)

InitImages ==
    /\ heap = <<>>
    /\ rels = New
    /\ last = [op |-> "New", arg |-> <<>>, ret |-> Nil, again |-> FALSE]
    /\ clearedAt = 0
    /\ other = New
    /\ phase = "images"

\* a call `op(arg)` on rels whose outcome is `res`
CallImages(op, arg, res) ==
    /\ Len(res.h) <= MaxImages
    /\ rels' = res.c
    /\ heap' = res.h
    /\ last' = [op |-> op, arg |-> arg, ret |-> res.ret,
                again |-> (last.op = op /\ last.arg = arg)]
    /\ UNCHANGED <<clearedAt, other, phase, wVars, poolVars, docVars>>

ImagesAddImage ==
    \E f \in FileNames : \E existing \in GetByTarget(rels, heap, MediaTarget(f)) :
        CallImages("AddImage", f, AddImage(rels, heap, f, existing))

\* the suffix is the first 8 characters of a random UUID: any token can be drawn
ImagesAddUniqueImage ==
    \E f \in FileNames : \E existing \in GetByTarget(rels, heap, MediaTarget(f)) :
        \E token \in Tokens :
            CallImages("AddUniqueImage", f, AddUniqueImage(rels, heap, f, existing, token))

NextImages ==
    \/ ImagesAddImage
    \/ ImagesAddUniqueImage

----------------------------------------------------------------------------
(* writer: the buffer pool, and Byte() of the parts that use it *)

Borrowers == 1..NumBorrowers

\* no document is given to newNumberingDefinitions()
NoDocument == [nil |-> TRUE, numbered |-> FALSE]

\* a document snapshot, as far as numbering goes: whether some element of its
\* body refers to a numbering instance (Paragraph.SetNumbering, lists)
Documents == {[nil |-> FALSE, numbered |-> b] : b \in BOOLEAN}

\* newNumberingDefinitionsForDocument(doc) when options.MinimalNumbering is set,
\* newNumberingDefinitions() otherwise
NewNumbering(minimal, doc) ==
    [ document |-> IF minimal THEN doc ELSE NoDocument,
      initialized |-> FALSE, AbstractNums |-> <<>>, Nums |-> <<>> ]

\* createDefaultAbstractNums(): the ids
createDefaultAbstractNums == <<0, 1, 2, 3, 4>>

\* createDefaultNums(): <<ID, AbstractID>>
createDefaultNums == << <<1, 0>>, <<2, 1>>, <<3, 2>>, <<4, 3>>, <<5, 4>> >>

\* hasNumberedElements: without a document TRUE; with one, the loop over the
\* elements of the body looks at none of them and TRUE is returned
hasNumberedElements(document) == IF document.nil THEN TRUE ELSE TRUE

ensureInitialized(num) ==
    IF num.initialized THEN num
    ELSE IF ~num.document.nil /\ ~hasNumberedElements(num.document)
         THEN [num EXCEPT !.AbstractNums = <<>>, !.Nums = <<>>, !.initialized = TRUE]
         ELSE [num EXCEPT !.AbstractNums = createDefaultAbstractNums,
                          !.Nums = createDefaultNums, !.initialized = TRUE]

\* what is written to the buffer, one item per WriteString: <<what, id, abstract id>>
XMLDeclaration == <<"<?xml?>", 0, 0>>

\* the manifest with no definitions
MinimalNumberingXML == <<XMLDeclaration, <<"<w:numbering/>", 0, 0>>>>

\* the manifest with the catalog of num
FullNumberingXML(num) ==
    <<XMLDeclaration, <<"<w:numbering>", 0, 0>>>>
        \o [k \in DOMAIN num.AbstractNums |-> <<"w:abstractNum", num.AbstractNums[k], 0>>]
        \o [k \in DOMAIN num.Nums |-> <<"w:num", num.Nums[k][1], num.Nums[k][2]>>]
        \o << <<"</w:numbering>", 0, 0>> >>

\* the bytes NumberingDefinitions.Byte() writes for an initialized num
NumberingXML(num) ==
    IF Len(num.AbstractNums) = 0 /\ Len(num.Nums) = 0 THEN MinimalNumberingXML
    ELSE FullNumberingXML(num)

\* the bytes StylesWr.Byte() writes
StylesXML == <<XMLDeclaration, <<"<w:styles>", 0, 0>>>>

\* the parts whose Byte() is called
PoolParts == {"word/numbering.xml", "word/styles.xml"}

\* what Byte() of the borrower's part writes
PartXML(b) == IF b.part = "word/numbering.xml" THEN NumberingXML(b.num) ELSE StylesXML

\* &bytes.Buffer{}: the storage, and how much of it is in use
NewBuffer == [store |-> <<>>, len |-> 0]

\* buf.Reset(): the storage is kept
BufferReset(buf) == [buf EXCEPT !.len = 0]

\* buf.WriteString of the items of xml, one after the other
BufferWrite(buf, xml) ==
    [ store |-> SubSeq(buf.store, 1, buf.len) \o xml
                    \o SubSeq(buf.store, buf.len + Len(xml) + 1, Len(buf.store)),
      len   |-> buf.len + Len(xml) ]

\* buf.Bytes() returned as it is: a slice of the buffer's storage
CopyOut_Alias(id, buf) == [alias |-> id, n |-> buf.len, bytes |-> <<>>]

\* result := make([]byte, buf.Len()); copy(result, buf.Bytes())
CopyOut(id, buf) == [alias |-> Nil, n |-> buf.len, bytes |-> SubSeq(buf.store, 1, buf.len)]

\* the bytes a caller reads in the slice it was given
BytesOf(result) ==
    IF result.alias = Nil THEN result.bytes
    ELSE SubSeq(buffers[result.alias].store, 1, result.n)

NoResult == [alias |-> Nil, n |-> 0, bytes |-> <<>>]

\* no Byte() is ever called
InitIdlePool ==
    /\ pool = {}
    /\ buffers = <<>>
    /\ borrowers = [t \in Borrowers |->
                      [ pc |-> "none", part |-> "word/styles.xml",
                        num |-> NewNumbering(FALSE, NoDocument), buf |-> Nil,
                        result |-> NoResult ]]

\* every borrower is about to call Byte() of a part made for one Write
InitPool ==
    /\ pool = {}
    /\ buffers = <<>>
    /\ borrowers \in [Borrowers ->
                        { [ pc |-> "start", part |-> p, num |-> NewNumbering(minimal, doc),
                            buf |-> Nil, result |-> NoResult ] :
                          p \in PoolParts, minimal \in BOOLEAN, doc \in Documents }]

\* borrower t: num.ensureInitialized() (Byte of the numbering part only)
BorrowerInit(t) ==
    /\ borrowers[t].pc = "start"
    /\ borrowers' = [borrowers EXCEPT ![t].pc = "ready",
                        ![t].num = IF borrowers[t].part = "word/numbering.xml"
                                   THEN ensureInitialized(@) ELSE @]
    /\ UNCHANGED <<pool, buffers, relVars, wVars, docVars>>

\* borrower t: getBuffer(). sync.Pool hands out a buffer that was put back, or
\* makes a new one (it keeps no promise to reuse)
BorrowerGet(t) ==
    /\ borrowers[t].pc = "ready"
    /\ \/ \E id \in pool :
            /\ pool' = pool \ {id}
            /\ borrowers' = [borrowers EXCEPT ![t].pc = "got", ![t].buf = id]
            /\ UNCHANGED buffers
       \/ /\ buffers' = Append(buffers, NewBuffer)
          /\ borrowers' = [borrowers EXCEPT ![t].pc = "got", ![t].buf = Len(buffers) + 1]
          /\ UNCHANGED pool
    /\ UNCHANGED <<relVars, wVars, docVars>>

\* borrower t: the WriteString calls of Byte()
BorrowerWrite(t) ==
    /\ borrowers[t].pc = "got"
    /\ buffers' = [buffers EXCEPT ![borrowers[t].buf] = BufferWrite(@, PartXML(borrowers[t]))]
    /\ borrowers' = [borrowers EXCEPT ![t].pc = "written"]
    /\ UNCHANGED <<pool, relVars, wVars, docVars>>

\* borrower t: the result of Byte() is taken from the buffer
BorrowerCopy(t) ==
    /\ borrowers[t].pc = "written"
    /\ borrowers' = [borrowers EXCEPT ![t].pc = "copied",
                        ![t].result = CopyOut(borrowers[t].buf, buffers[borrowers[t].buf])]
    /\ UNCHANGED <<pool, buffers, relVars, wVars, docVars>>

\* borrower t: Byte() returns, the deferred putBuffer(buf) runs
BorrowerPut(t) ==
    /\ borrowers[t].pc = "copied"
    /\ buffers' = [buffers EXCEPT ![borrowers[t].buf] = BufferReset(@)]
    /\ pool' = pool \cup {borrowers[t].buf}
    /\ borrowers' = [borrowers EXCEPT ![t].pc = "returned", ![t].buf = Nil]
    /\ UNCHANGED <<relVars, wVars, docVars>>

NextPool ==
    \E t \in Borrowers :
        \/ BorrowerInit(t)
        \/ BorrowerGet(t)
        \/ BorrowerWrite(t)
        \/ BorrowerCopy(t)
        \/ BorrowerPut(t)

----------------------------------------------------------------------------
(* Document: Save, Write and Close *)

Callers == 1..NumCallers

DocOps == {"Save", "Write", "Close"}

\* fmt.Errorf("document has been closed")
ErrClosed == "document has been closed"

\* a mutex that lets everybody in
MuFree_Always(m) == TRUE

\* d.mu.Lock() goes on when nobody holds the mutex
MuFree(m) == m = 0

\* no call is ever made on the document
InitIdleDoc ==
    /\ docClosed = FALSE
    /\ mu = 0
    /\ callers = [t \in Callers |-> [pc |-> "none", op |-> "none", ret |-> NoErr, n |-> 0, late |-> FALSE]]
    /\ sinkWrites = 0
    /\ files = 0
    /\ closeDone = FALSE

\* New(): an open document, and callers that have not called yet
InitDoc ==
    /\ docClosed = FALSE
    /\ mu = 0
    /\ callers = [t \in Callers |-> [pc |-> "idle", op |-> "none", ret |-> NoErr, n |-> 0, late |-> FALSE]]
    /\ sinkWrites = 0
    /\ files = 0
    /\ closeDone = FALSE

\* caller t calls Save, Write or Close; `late` records that a Close had returned
DocCall(t) ==
    /\ callers[t].pc = "idle"
    /\ callers[t].n < CallsEach
    /\ \E op \in DocOps :
          callers' = [callers EXCEPT ![t] = [pc |-> "lock", op |-> op, ret |-> NoErr,
                                             n |-> @.n + 1, late |-> closeDone]]
    /\ UNCHANGED <<docClosed, mu, sinkWrites, files, closeDone, relVars, wVars, poolVars>>

\* d.mu.Lock()
DocLock(t) ==
    /\ callers[t].pc = "lock"
    /\ MuFree(mu)
    /\ mu' = t
    /\ callers' = [callers EXCEPT ![t].pc = "locked"]
    /\ UNCHANGED <<docClosed, sinkWrites, files, closeDone, relVars, wVars, poolVars>>

\* `if d.closed`: Save and Write return the error, Close returns nil
DocCheck(t) ==
    /\ callers[t].pc = "locked"
    /\ callers' = [callers EXCEPT
          ![t].pc  = IF docClosed THEN "unlock" ELSE "open",
          ![t].ret = IF docClosed /\ callers[t].op # "Close" THEN ErrClosed ELSE NoErr]
    /\ UNCHANGED <<docClosed, mu, sinkWrites, files, closeDone, relVars, wVars, poolVars>>

\* Save on an open document: os.Create, then d.write(file) when the file was made
DocSave(t) ==
    /\ callers[t].pc = "open"
    /\ callers[t].op = "Save"
    /\ \/ /\ callers' = [callers EXCEPT ![t].pc = "unlock", ![t].ret = "failed to create file"]
          /\ UNCHANGED <<files, sinkWrites>>
       \/ /\ files' = files + 1
          /\ sinkWrites' = sinkWrites + 1
          /\ \E err \in {NoErr, "failed to write document"} :
                callers' = [callers EXCEPT ![t].pc = "unlock", ![t].ret = err]
    /\ UNCHANGED <<docClosed, mu, closeDone, relVars, wVars, poolVars>>

\* Write on an open document: d.write(w), whose Writer.Write returns nil or an error
DocWrite(t) ==
    /\ callers[t].pc = "open"
    /\ callers[t].op = "Write"
    /\ sinkWrites' = sinkWrites + 1
    /\ \E err \in {NoErr, "write failed"} :
          callers' = [callers EXCEPT ![t].pc = "unlock", ![t].ret = err]
    /\ UNCHANGED <<docClosed, mu, files, closeDone, relVars, wVars, poolVars>>

\* Close on an open document: no file is open (Save closes its file before it
\* unlocks), the references are dropped and closed is set
DocClose(t) ==
    /\ callers[t].pc = "open"
    /\ callers[t].op = "Close"
    /\ docClosed' = TRUE
    /\ callers' = [callers EXCEPT ![t].pc = "unlock", ![t].ret = NoErr]
    /\ UNCHANGED <<mu, sinkWrites, files, closeDone, relVars, wVars, poolVars>>

\* the deferred d.mu.Unlock(), and the call returns
DocUnlock(t) ==
    /\ callers[t].pc = "unlock"
    /\ mu' = 0
    /\ callers' = [callers EXCEPT ![t].pc = "idle"]
    /\ closeDone' = (closeDone \/ callers[t].op = "Close")
    /\ UNCHANGED <<docClosed, sinkWrites, files, relVars, wVars, poolVars>>

NextDoc ==
    \E t \in Callers :
        \/ DocCall(t)
        \/ DocLock(t)
        \/ DocCheck(t)
        \/ DocSave(t)
        \/ DocWrite(t)
        \/ DocClose(t)
        \/ DocUnlock(t)

----------------------------------------------------------------------------
(* Specifications *)

\* a new collection, and a writer that is never run
Init == InitRels /\ InitIdleWriter /\ InitIdlePool /\ InitIdleDoc

\* a new collection, and a writer about to run Write on some snapshot
InitWrite == InitRels /\ InitWriter /\ InitIdlePool /\ InitIdleDoc

\* calls on one relationship collection; no Write runs
Spec == Init /\ [][NextRels]_vars

\* one Write on a snapshot, under each strategy
SpecWrite == InitWrite /\ [][NextWriter]_vars

\* the default collection, and a writer that is never run
InitDefaults == InitDefault /\ InitIdleWriter /\ InitIdlePool /\ InitIdleDoc

\* calls on a collection that NewDefault() made
SpecDefault == InitDefaults /\ [][NextDefault]_vars

\* two new collections, and a writer that is never run
InitTwo == InitPair /\ InitIdleWriter /\ InitIdlePool /\ InitIdleDoc

\* calls on two collections, ending in a Merge or in a Clone and one more call
SpecPair == InitTwo /\ [][NextPair]_vars

InitImageCalls == InitImages /\ InitIdleWriter /\ InitIdlePool /\ InitIdleDoc

\* AddImage and AddUniqueImage on a new collection
SpecImages == InitImageCalls /\ [][NextImages]_vars

\* calls on a collection that NewDefault() made, and one Write of the document
SpecPackage == InitDefaults /\ [][NextPackage]_vars

InitByteCalls == InitRels /\ InitIdleWriter /\ InitPool /\ InitIdleDoc

\* concurrent calls of Byte() on parts that share the buffer pool
SpecPool == InitByteCalls /\ [][NextPool]_vars

InitDocCalls == InitRels /\ InitIdleWriter /\ InitIdlePool /\ InitDoc

\* concurrent calls of Save, Write and Close on one document
SpecDoc == InitDocCalls /\ [][NextDoc]_vars

----------------------------------------------------------------------------
(* Properties of the relationship store *)

\* every relationship one of the collection's maps or lists points to
HeldRels(c) ==
    Range(c.items) \cup Range(c.packageRels) \cup Range(c.documentRels)
        \cup Range(c.byTarget) \cup Range(c.external)
        \cup UNION {Range(c.byType[t]) : t \in DOMAIN c.byType}

\* the held relationships whose Target is t
WithTarget(c, h, t) == {p \in Range(c.items) : h[p].Target = t}

\* C1: after any sequence of add and Remove calls, no two relationships the
\* collection holds (in its id index, its derived indices or its two partitions)
\* carry the same id.
C1_IdsPairwiseDistinct ==
    \A p, q \in HeldRels(rels) : p # q => heap[p].ID # heap[q].ID

C1_Witness ==
    /\ Cardinality(HeldRels(rels)) >= 2
    /\ Cardinality(Range(rels.documentRels)) >= 2

\* C5: every relationship of the id index is in exactly one of the two partitions,
\* and every relationship of a partition is in the id index.
C5_IndexConsistency ==
    /\ \A p \in Range(rels.items) :
          (p \in Range(rels.packageRels)) # (p \in Range(rels.documentRels))
    /\ \A p \in Range(rels.packageRels) \cup Range(rels.documentRels) :
          p \in Range(rels.items)

\* C6: no two held relationships have the same target_key.
C6_TargetKeyUnique ==
    \A p, q \in Range(rels.items) : p # q => heap[p].TargetKey # heap[q].TargetKey

\* C7: after a Remove(id) that removed something, no index and no partition holds
\* a relationship with that id, and every relationship still held is the one found
\* under its target_key in byTarget and, when External, under its target in external.
C7_RemoveKeepsIndicesConsistent ==
    (last.op = "Remove" /\ last.ret = TRUE) =>
        /\ last.arg \notin DOMAIN rels.items
        /\ \A p \in HeldRels(rels) : heap[p].ID # last.arg
        /\ \A p \in Range(rels.items) :
              /\ MapGet(rels.byTarget, heap[p].TargetKey, Nil) = p
              /\ heap[p].TargetMode = TargetModeExternal =>
                    MapGet(rels.external, heap[p].Target, Nil) = p

\* C8: a GetOrCreateHyperlink(url) that directly follows a GetOrCreateHyperlink(url)
\* returns the same relationship (the same id), and adds nothing: Count and the
\* document partition are as before it.
C8_HyperlinkIdempotent ==
    [][ (last'.op = "GetOrCreateHyperlink" /\ last'.again) =>
            /\ last'.ret = last.ret
            /\ heap'[last'.ret].ID = heap[last.ret].ID
            /\ Count(rels') = Count(rels)
            /\ rels'.documentRels = rels.documentRels ]_vars

C8_Witness ==
    /\ last.op = "GetOrCreateHyperlink"
    /\ last.again
    /\ last.ret \in Range(rels.documentRels)
    /\ heap[last.ret].Target \in URLs

\* C9: AddImage(filename) returns a held relationship whose target is
\* media/<filename> and changes nothing when there is one, and otherwise creates
\* exactly one image relationship with that target in the document partition; so
\* a media target held at most once before an AddImage is held at most once after.
C9_AddImageDedup ==
    [][ last'.op = "AddImage" =>
          LET t == MediaTarget(last'.arg)
          IN  /\ IF WithTarget(rels, heap, t) # {}
                 THEN /\ last'.ret \in WithTarget(rels, heap, t)
                      /\ rels' = rels
                      /\ heap' = heap
                 ELSE /\ Len(heap') = Len(heap) + 1
                      /\ last'.ret = Len(heap')
                      /\ heap'[last'.ret].Target = t
                      /\ heap'[last'.ret].Type = TypeImage
                      /\ WithTarget(rels', heap', t) = {last'.ret}
                      /\ last'.ret \in Range(rels'.documentRels)
              /\ \A f \in FileNames :
                    Cardinality(WithTarget(rels, heap, MediaTarget(f))) <= 1 =>
                        Cardinality(WithTarget(rels', heap', MediaTarget(f))) <= 1 ]_vars

C9_Witness ==
    /\ last.op = "AddImage"
    /\ last.again
    /\ WithTarget(rels, heap, MediaTarget(last.arg)) = {last.ret}
    /\ Len(heap) = 1

\* C10: between two Clear calls (so in any sequence of add and Remove calls) every
\* id the collection allocates is rIdN with N greater than the N of every id it
\* allocated before: no id comes back, also not after its relationship is removed.
C10_IdsNeverReused ==
    \A p, q \in (clearedAt + 1)..Len(heap) :
        p < q => IDNumber(heap[p].ID) < IDNumber(heap[q].ID)

C10_Witness ==
    /\ last.op = "AddHeader"
    /\ clearedAt = 0
    /\ Len(heap) = 2
    /\ last.ret = 2
    /\ 1 \notin HeldRels(rels)
    /\ IDNumber(heap[2].ID) = 2

----------------------------------------------------------------------------
(* Properties of Merge and Clone *)

\* the distinct target_keys of the relationships a collection holds
Keys(c, h) == {h[p].TargetKey : p \in Range(c.items)}

\* the ids of the relationships of a partition, in its order
PartitionIDs(slice, h) == [k \in DOMAIN slice |-> h[slice[k]].ID]

\* what a relationship is apart from its id: kind, target, mode and partition
Shape(c, h, p) ==
    << h[p].Type, h[p].Target, h[p].TargetMode,
       p \in Range(c.packageRels), p \in Range(c.documentRels) >>

\* two relationships are equivalent for Merge: the same target_key, or both
\* External with the same target
Equivalent(x, y) ==
    \/ x.TargetKey = y.TargetKey
    \/ /\ x.TargetMode = TargetModeExternal
       /\ y.TargetMode = TargetModeExternal
       /\ x.Target = y.Target

\* C11: rels.Merge(other) creates no duplicate. For each relationship of other,
\* in the order Merge visits them: if rels already holds an equivalent one (one it
\* held before the call, or one the call added for a relationship visited before)
\* then nothing is added for it and its old id maps to the id of such a one;
\* otherwise one relationship is added for it, with the same kind, target and
\* mode, under an id rels did not hold, in the partition (package, document or
\* none) it has in other, and the old id maps to its id. Nothing else is added.
C11_MergeCreatesNoDuplicate ==
    [][ (phase = "build" /\ phase' = "merged") =>
          LET order == last'.arg
              idMap == last'.ret
              inc(k) == heap[other.items[order[k]]]
              held(k) == {a \in Range(rels.items) : Equivalent(heap[a], inc(k))}
              earlier(k) == {j \in 1..(k - 1) : Equivalent(inc(j), inc(k))}
              fresh == {k \in DOMAIN order : held(k) = {} /\ earlier(k) = {}}
          IN  /\ \A k \in DOMAIN order \ fresh :
                    idMap[order[k]] \in {heap[a].ID : a \in held(k)}
                                          \cup {idMap[order[j]] : j \in earlier(k)}
              /\ \A k \in fresh :
                    /\ idMap[order[k]] \notin DOMAIN rels.items
                    /\ idMap[order[k]] \in DOMAIN rels'.items
                    /\ LET q == rels'.items[idMap[order[k]]]
                           b == other.items[order[k]]
                       IN  /\ heap'[q].Type = heap[b].Type
                           /\ heap'[q].Target = heap[b].Target
                           /\ heap'[q].TargetMode = heap[b].TargetMode
                           /\ (q \in Range(rels'.packageRels)) = (b \in Range(other.packageRels))
                           /\ (q \in Range(rels'.documentRels)) = (b \in Range(other.documentRels))
              /\ \A j, k \in fresh : j # k => idMap[order[j]] # idMap[order[k]]
              /\ Count(rels') = Count(rels) + Cardinality(fresh)
      ]_vars

\* C12: merging other into a new, empty collection gives a collection isomorphic
\* to other: as many relationships of each (kind, target, mode, partition
\* membership) as other has, under the ids rId1..rIdn, n = Count(other).
C12_MergeIntoEmptyIsomorphic ==
    [][ (phase = "build" /\ phase' = "merged" /\ rels = New) =>
          /\ DOMAIN rels'.items = {FormatID(n) : n \in 1..Count(other)}
          /\ \A b \in Range(other.items) :
                Cardinality({q \in Range(rels'.items) :
                                Shape(rels', heap', q) = Shape(other, heap, b)})
                  = Cardinality({d \in Range(other.items) :
                                Shape(other, heap, d) = Shape(other, heap, b)})
      ]_vars

\* C13: rels.Merge(other) never decreases the number of distinct target_keys
\* that rels holds.
C13_MergeKeepsDistinctKeys ==
    [][ (phase = "build" /\ phase' = "merged") =>
          Cardinality(Keys(rels', heap')) >= Cardinality(Keys(rels, heap)) ]_vars

C13_Witness ==
    /\ phase = "merged"
    /\ \E p \in Range(rels.items) : heap[p].ID \notin Range(last.ret)
    /\ \E id \in DOMAIN last.ret : IDNumber(last.ret[id]) = rels.nextID - 1
    /\ Cardinality(DOMAIN last.ret) = 2
    /\ Cardinality(Range(last.ret)) = 2

\* C14: right after rels = other.Clone(), rels has the ids of other, under each id
\* a relationship with the same fields, the same ids in the same order in the
\* package partition and in the document partition, and the same next-id counter,
\* and it shares no Relationship object with other; and the add or Remove call
\* that follows on one of the two collections leaves the other collection and
\* every Relationship object as they were.
C14_CloneIsDeepCopy ==
    /\ [](phase = "cloned" =>
            /\ DOMAIN rels.items = DOMAIN other.items
            /\ \A id \in DOMAIN other.items :
                  heap[rels.items[id]] = heap[other.items[id]]
            /\ PartitionIDs(rels.packageRels, heap) = PartitionIDs(other.packageRels, heap)
            /\ PartitionIDs(rels.documentRels, heap) = PartitionIDs(other.documentRels, heap)
            /\ rels.nextID = other.nextID
            /\ HeldRels(rels) \cap HeldRels(other) = {})
    /\ [][ phase = "cloned" =>
            /\ rels' = rels \/ other' = other
            /\ \A p \in DOMAIN heap : heap'[p] = heap[p] ]_vars

C14_Witness ==
    /\ phase = "cloned"
    /\ Count(rels) >= 1
    /\ rels.nextID > Count(rels) + 1
    /\ rels.packageRels # <<>>

----------------------------------------------------------------------------
(* Properties of Validate, NewDefault and the manifests *)

\* a relationship the claim C15 calls malformed
Malformed(rel) ==
    \/ rel.ID = <<"">>
    \/ rel.Type = <<"">>
    \/ rel.Target = <<"">>
    \/ rel.TargetMode \notin {TargetModeInternal, TargetModeExternal}

\* C15: Validate() returns an error exactly when the collection holds two
\* relationships with the same id, or a held relationship has an empty id, an
\* empty kind, an empty target, or a target_mode that is neither Internal nor
\* External; otherwise it returns nil.
C15_ValidateExactly ==
    last.op = "Validate" =>
        (IsError(last.ret) <=>
            \/ \E p, q \in Range(rels.items) : p # q /\ heap[p].ID = heap[q].ID
            \/ \E p \in Range(rels.items) : Malformed(heap[p]))

\* C15 as amended: Validate() returns an error exactly when the collection holds
\* two relationships with the same id, or a held relationship has an empty id, an
\* empty kind, an empty target, or a target_mode that is not empty and is neither
\* Internal nor External; otherwise it returns nil.
C15_ValidateExactly_Amended ==
    last.op = "Validate" =>
        (IsError(last.ret) <=>
            \/ \E p, q \in Range(rels.items) : p # q /\ heap[p].ID = heap[q].ID
            \/ \E p \in Range(rels.items) :
                  \/ heap[p].ID = <<"">>
                  \/ heap[p].Type = <<"">>
                  \/ heap[p].Target = <<"">>
                  \/ /\ heap[p].TargetMode # ""
                     /\ heap[p].TargetMode \notin {TargetModeInternal, TargetModeExternal})

C15_Witness ==
    /\ last.op = "Validate"
    /\ last.ret = NoErr
    /\ \E p \in Range(rels.items) : heap[p].TargetMode = ""
    /\ Count(rels) = DefaultCount + 1

\* the default collection after AddHyperlink("https://example.com") and then
\* AddImage("logo.png"), whatever calls that change nothing were made as well
ScenarioDone ==
    /\ Len(heap) = DefaultCount + 2
    /\ Count(rels) = DefaultCount + 2
    /\ heap[DefaultCount + 1].Type = TypeHyperlink
    /\ heap[DefaultCount + 1].Target = <<"https:", "", "example.com">>
    /\ heap[DefaultCount + 2].Type = TypeImage
    /\ heap[DefaultCount + 2].Target = MediaTarget(LogoFile)

\* the (kind, target) pairs read from the elements of a manifest
ReadKinds(manifest) ==
    {<<ReadTuple(manifest[k])[2], ReadTuple(manifest[k])[3]>> : k \in DOMAIN manifest}

\* C16: from NewDefault(), after AddHyperlink("https://example.com") and then
\* AddImage("logo.png"): Validate returns nil; the package manifest holds three
\* elements, the document, core-properties and extended-properties defaults; the
\* document manifest holds seven, the styles, settings, webSettings, fontTable
\* and theme defaults, the hyperlink and the image.
C16_DefaultScenario ==
    ScenarioDone =>
        /\ last.op = "Validate" => last.ret = NoErr
        /\ last.op = "PackageXML" =>
              /\ Len(last.ret) = 3
              /\ ReadKinds(last.ret) =
                    { <<TypeDocument, <<"word", "document.xml">>>>,
                      <<TypeCoreProperties, <<"docProps", "core.xml">>>>,
                      <<TypeExtProperties, <<"docProps", "app.xml">>>> }
        /\ last.op = "DocumentXML" =>
              /\ Len(last.ret) = 7
              /\ ReadKinds(last.ret) =
                    { <<TypeStyles, <<"styles.xml">>>>,
                      <<TypeSettings, <<"settings.xml">>>>,
                      <<TypeWebSettings, <<"webSettings.xml">>>>,
                      <<TypeFontTable, <<"fontTable.xml">>>>,
                      <<TypeTheme, <<"theme", "theme1.xml">>>>,
                      <<TypeHyperlink, <<"https:", "", "example.com">>>>,
                      <<TypeImage, <<"media", "logo.png">>>> }

C16_Witness ==
    /\ ScenarioDone
    /\ last.op = "PackageXML"
    /\ Len(last.ret) = 3

\* what is read back for a relationship: its id, kind and target, and its mode
\* when that is External (the attribute is absent otherwise)
Rendered(rel) ==
    << rel.ID, rel.Type, rel.Target,
       IF rel.TargetMode = TargetModeExternal THEN rel.TargetMode ELSE "" >>

----------------------------------------------------------------------------
(* Properties of Writer.Write *)

\* the names and contents of the entries, in archive order
Archive(z) == [k \in DOMAIN z.entries |-> <<z.entries[k].name, z.entries[k].data>>]

\* C2: at no time are two threads inside a call on the shared zip writer.
C2_ZipWriterNeverTouchedConcurrently ==
    Cardinality(busy) <= 1

\* C3: a Write that returned nil left the archive the sequential strategy leaves on
\* the same snapshot: the same entries with the same bytes in the same order.
C3_StrategiesAgree ==
    (wpc = "returned" /\ wret.ok) =>
        Archive(zip) = Archive(writeSequentially(NewZip, 1).zip)

\* C4: once Write has returned, if writeToZip failed for some component then the
\* value Write returned is an error.
C4_AllOrNothing ==
    (wpc \in {"closing", "returned"} /\ \E i \in Parts : perr[i] \notin {"not run", NoErr})
        => ~wret.ok

C4_Witness ==
    /\ wpc = "returned"
    /\ wmode = "concurrent"
    /\ \E i \in Parts : perr[i] = "Byte failed"
    /\ \E i \in Parts : perr[i] = NoErr
    /\ ~wret.ok

\* the components whose writeToZip returned an error
FailedParts == {i \in Parts : perr[i] \notin {"not run", NoErr}}

\* C18: when the concurrent Write returns an error of a component, every task has
\* finished and its outcome has been received (no task is still running, none
\* is left in the channel), and the error is that of the failing component that
\* comes first in the list the tasks were started from.
C18_CollectsAllThenFirstInOrder ==
    (/\ wmode = "concurrent"
     /\ wpc \in {"closing", "returned"}
     /\ ~wret.ok
     /\ wret.path \in Range(components)) =>
        /\ \A i \in Parts : tasks[i].pc = "sent"
        /\ chan = <<>>
        /\ \E i \in FailedParts :
              /\ wret.path = components[i]
              /\ \A j \in FailedParts : i <= j

\* C19: once Write has returned, if any call on the zip writer failed on the
\* output sink (writing a component, writing a media file, or the final Close)
\* then the value Write returned is an error.
C19_SinkFailureIsReturned ==
    (wpc = "returned" /\ zip.sinkErr) => ~wret.ok

\* the media files whose write returned an error
FailedMedia == {k \in DOMAIN media : merr[k] \notin {"not run", NoErr}}

\* C20: once the media files have been written, if the write of some of them
\* failed then every media file of the list has been attempted and the value
\* Write returns is an error that names every one that failed.
C20_MediaErrorsAggregated ==
    (wpc \in {"closing", "returned"} /\ FailedMedia # {}) =>
        /\ \A k \in DOMAIN media : merr[k] # "not run"
        /\ ~wret.ok
        /\ {media[k].base \o media[k].ext : k \in FailedMedia} = {wret.path}

\* C21: after a Write that returned nil no two entries of the archive have the
\* same name, whatever the media list of the snapshot (a file name added twice
\* is in the list twice).
C21_EveryPartOnce ==
    (wpc = "returned" /\ wret.ok) =>
        \A j, k \in DOMAIN zip.entries :
            zip.entries[j].name = zip.entries[k].name => j = k

\* C22: two calls of AddUniqueImage in a row with the same file name return two
\* distinct relationships whose targets differ.
C22_UniqueImageTwice ==
    [][(/\ last.op = "AddUniqueImage"
        /\ last'.op = "AddUniqueImage"
        /\ last'.arg = last.arg) =>
            /\ last'.ret # last.ret
            /\ heap'[last'.ret].Target # heap'[last.ret].Target]_vars

\* C23: whenever Write has returned, with nil, with the error of a component or
\* with the error of a media file, in every strategy, the zip stream of the call
\* has been closed.
C23_StreamAlwaysClosed ==
    wpc = "returned" => zip.closed

C23_Witness ==
    /\ wpc = "returned"
    /\ wmode = "concurrent"
    /\ ~wret.ok
    /\ FailedMedia # {}
    /\ zip.closed

\* the entries of archive z that are media files
MediaEntries(z) ==
    {k \in DOMAIN z.entries : \E j \in DOMAIN media : z.entries[k].name = MediaEntryName(media[j])}

\* C24: a media entry exists only when every component was written without
\* error; and from the moment Write has fixed an error as its result (and from
\* the moment the stream is closed) no entry is created on the stream and no
\* bytes are appended to one.
C24_NoWriteAfterFailure ==
    /\ [](MediaEntries(zip) # {} => \A i \in Parts : perr[i] = NoErr)
    /\ [][((wpc \in {"closing", "returned"} /\ ~wret.ok) \/ zip.closed) =>
            /\ Len(zip'.entries) = Len(zip.entries)
            /\ \A k \in DOMAIN zip.entries : zip'.entries[k].data = zip.entries[k].data]_vars

\* C25: when writeToZip of some component failed, the error Write returns
\* carries the path of a component whose writeToZip failed, with that
\* component's error, and of no component that did not fail.
C25_ErrorNamesFailedPart ==
    (wpc \in {"closing", "returned"} /\ FailedParts # {}) =>
        /\ ~wret.ok
        /\ \E i \in FailedParts : wret.path = components[i] /\ wret.cause = perr[i]
        /\ \A i \in Parts \ FailedParts : wret.path # components[i]

C25_Witness ==
    /\ wpc = "returned"
    /\ wmode = "concurrent"
    /\ perr[1] = NoErr
    /\ perr[2] = "Byte failed"
    /\ wret = WriteError(2, "Byte failed")

----------------------------------------------------------------------------
(* Properties of the numbering part and of the buffer pool *)

\* the ids of the items of the given kind in the bytes xml
IdsIn(xml, kind) == {xml[k][2] : k \in {j \in DOMAIN xml : xml[j][1] = kind}}

\* C26: with minimal numbering enabled (the part was given the document), the
\* bytes Byte() returned are the manifest without definitions exactly when no
\* element of the snapshot refers to numbering; and when some element does,
\* they hold the abstract definitions 0-4 and the instances 1-5.
C26_MinimalNumberingExactly ==
    \A t \in Borrowers :
        (/\ borrowers[t].pc = "returned"
         /\ borrowers[t].part = "word/numbering.xml"
         /\ ~borrowers[t].num.document.nil) =>
            /\ (BytesOf(borrowers[t].result) = MinimalNumberingXML)
                   <=> ~borrowers[t].num.document.numbered
            /\ borrowers[t].num.document.numbered =>
                   /\ IdsIn(BytesOf(borrowers[t].result), "w:abstractNum") = 0..4
                   /\ IdsIn(BytesOf(borrowers[t].result), "w:num") = 1..5

\* C27: no buffer is held by two borrowers at once, nor held while it is in the
\* pool; and the bytes a caller was given by Byte() stay the bytes its part
\* wrote, whoever borrows the same buffer afterwards.
C27_PoolExclusive ==
    /\ \A t \in Borrowers : borrowers[t].buf # Nil =>
          /\ borrowers[t].buf \notin pool
          /\ \A u \in Borrowers \ {t} : borrowers[u].buf # borrowers[t].buf
    /\ \A t \in Borrowers : borrowers[t].pc = "returned" =>
          BytesOf(borrowers[t].result) = PartXML(borrowers[t])

\* a borrower has its result and another one, of a different part, has written
\* to the very buffer the first one used
C27_Witness ==
    \E t, u \in Borrowers :
        /\ borrowers[t].pc = "returned"
        /\ borrowers[u].pc = "written"
        /\ borrowers[u].part # borrowers[t].part
        /\ Len(buffers) = 1
        /\ BytesOf(borrowers[t].result) = PartXML(borrowers[t])

----------------------------------------------------------------------------
(* Properties of the written package *)

\* the names of the entries of archive z
EntryNames(z) == {z.entries[k].name : k \in DOMAIN z.entries}

\* the manifest that archive z holds in the entry called name
ManifestIn(z, name) ==
    LET k == CHOOSE j \in DOMAIN z.entries : z.entries[j].name = name
    IN  z.entries[k].data[1].xml

\* the targets of the relationships of a manifest that are not External
InternalTargets(manifest) ==
    { ReadTuple(manifest[k])[3] :
        k \in {j \in DOMAIN manifest : ReadTuple(manifest[j])[4] # TargetModeExternal} }

C29_ManifestTargetsPresent ==
    (last.op = "Write" /\ wret.ok) =>
        /\ \A target \in InternalTargets(ManifestIn(zip, "_rels/.rels")) :
              PartName(target) \in EntryNames(zip)
        /\ \A target \in InternalTargets(ManifestIn(zip, "word/_rels/document.xml.rels")) :
              PartName(<<"word">> \o target) \in EntryNames(zip)

----------------------------------------------------------------------------
(* Properties of the Document lifecycle *)

\* the callers that hold, or believe they hold, the mutex
Inside == {t \in Callers : callers[t].pc \in {"locked", "open", "unlock"}}

\* C30: a Save or Write called after a Close has returned returns the error
\* "document has been closed", and from that Close on no sink is written and
\* no file is created; a Close called after a Close has returned returns nil
\* and the document stays as it is; and at most one call of Save, Write or
\* Close is inside the mutex at a time.
C30_ClosedDocumentRejects ==
    /\ [](\A t \in Callers :
            (callers[t].late /\ callers[t].pc \in {"unlock", "idle"}) =>
                callers[t].ret = IF callers[t].op = "Close" THEN NoErr ELSE ErrClosed)
    /\ [][closeDone => /\ sinkWrites' = sinkWrites
                       /\ files' = files
                       /\ docClosed' = docClosed
                       /\ docClosed]_vars
    /\ [](Cardinality(Inside) <= 1)

\* after a Close has returned, a Write and a second Close have been called and
\* have returned
C30_Witness ==
    /\ closeDone
    /\ \E t, u \in Callers :
          /\ t # u
          /\ callers[t].late /\ callers[t].op = "Write" /\ callers[t].pc = "idle"
          /\ callers[t].ret = ErrClosed
          /\ callers[u].late /\ callers[u].op = "Close" /\ callers[u].pc = "idle"
          /\ callers[u].ret = NoErr

====
